---- MODULE Spec2Model ----
(***************************************************************************)
(* Token Store, HTTP client core, request/response interceptors and the    *)
(* request utility used by the resource services of biz-ai-works-admin.    *)
(*                                                                         *)
(* JavaScript values are records [t, v]: t is the type tag and v the       *)
(* printed content, so that null, undefined, "", 0 and false stay distinct *)
(* values whose truthiness is computed the way JavaScript computes it.     *)
(***************************************************************************)
EXTENDS Integers, Sequences, FiniteSets, TLC

VARIABLES accessToken, refreshToken, email, isInitialPassword, savedEmail,
          href, call, probe

vars == <<accessToken, refreshToken, email, isInitialPassword, savedEmail,
          href, call, probe>>

----------------------------------------------------------------------------
(* JavaScript values *)

JsNull == [t |-> "null", v |-> ""]
JsUndef == [t |-> "undefined", v |-> ""]
Str(s) == [t |-> "string", v |-> s]
Num(s) == [t |-> "number", v |-> s]
Bool(s) == [t |-> "boolean", v |-> s]
Arr(s) == [t |-> "array", v |-> s]
Obj(d, m) == [t |-> "object", v |-> "", data |-> d, message |-> m]

\* ToBoolean: null, undefined, "", 0, NaN and false are falsy, all else truthy
Truthy(x) ==
    CASE x.t \in {"null", "undefined"} -> FALSE
      [] x.t = "string" -> Len(x.v) > 0
      [] x.t = "number" -> x.v \notin {"0", "NaN"}
      [] x.t = "boolean" -> x.v = "true"
      [] OTHER -> TRUE

\* a || b
OrElse(a, b) == IF Truthy(a) THEN a ELSE b

----------------------------------------------------------------------------
(* Token Store: src/src/stores/useAuthStore.ts *)

AccessTokens == {JsNull, Str(""), Str("tokA")}
RefreshTokens == {JsNull, Str("refA")}
Emails == {JsNull, Str("a@x.io")}
Flags == {Bool("false"), Bool("true")}

\* computed(() => !!accessToken.value)
IsLoggedInWrong == accessToken # JsNull
IsLoggedIn == Truthy(accessToken)

\* computed: null when there is no token, else `Bearer ${accessToken}`
authHeader ==
    IF ~Truthy(accessToken) THEN JsNull ELSE Str("Bearer " \o accessToken.v)

\* authData is a Partial<AuthState>: a field left out is undefined
setAuthData(authData) ==
    /\ accessToken' = IF authData.accessToken # JsUndef
                      THEN authData.accessToken ELSE accessToken
    /\ refreshToken' = IF authData.refreshToken # JsUndef
                       THEN authData.refreshToken ELSE refreshToken
    /\ email' = IF authData.email # JsUndef THEN authData.email ELSE email
    /\ isInitialPassword' = IF authData.isInitialPassword # JsUndef
                            THEN authData.isInitialPassword
                            ELSE isInitialPassword
    /\ savedEmail' = IF authData.savedEmail # JsUndef
                     THEN authData.savedEmail ELSE savedEmail

saveEmail(emailToSave) ==
    /\ savedEmail' = emailToSave
    /\ UNCHANGED <<accessToken, refreshToken, email, isInitialPassword>>

clearSavedEmail ==
    /\ savedEmail' = JsNull
    /\ UNCHANGED <<accessToken, refreshToken, email, isInitialPassword>>

updateAccessToken(newAccessToken) ==
    /\ accessToken' = newAccessToken
    /\ UNCHANGED <<refreshToken, email, isInitialPassword, savedEmail>>

logoutForgettingEmail ==
    /\ accessToken' = JsNull
    /\ refreshToken' = JsNull
    /\ email' = JsNull
    /\ isInitialPassword' = Bool("false")
    /\ savedEmail' = JsNull

logout ==
    /\ accessToken' = JsNull
    /\ refreshToken' = JsNull
    /\ email' = JsNull
    /\ isInitialPassword' = Bool("false")
    /\ UNCHANGED savedEmail

forceLogout ==
    /\ accessToken' = JsNull
    /\ refreshToken' = JsNull
    /\ email' = JsNull
    /\ isInitialPassword' = Bool("false")
    /\ savedEmail' = JsNull

----------------------------------------------------------------------------
(* Request descriptors.  headers is the set of <<name, value>> entries of  *)
(* the headers object; hasHeaders is FALSE when the object is missing.     *)

DEFAULT_HEADERS == {<<"Content-Type", "application/json">>}

\* headers[name] = value
SetHeader(headers, name, value) ==
    {h \in headers : h[1] # name} \cup {<<name, value>>}

\* { ...a, ...b }
Spread(a, b) == {h \in a : \A g \in b : g[1] # h[1]} \cup b

HeaderValues(headers, name) == {h[2] : h \in {g \in headers : g[1] = name}}

\* the headers a caller may pass in options
CallerHeaders ==
    { {},
      {<<"X-Requested-With", "XMLHttpRequest">>},
      {<<"Authorization", "Basic dXNlcg==">>},
      {<<"Content-Type", "multipart/form-data">>} }

Bodies == {"none", "json", "formdata"}

----------------------------------------------------------------------------
(* Request interceptor: src/src/api/interceptor.ts *)

requestInterceptorPrefixing(config) ==
    LET token == accessToken IN
    IF ~Truthy(token) THEN config
    ELSE LET headers == IF config.hasHeaders THEN config.headers ELSE {}
             old == HeaderValues(headers, "Authorization")
             value == IF old = {} THEN "Bearer " \o token.v
                      ELSE "Bearer " \o (CHOOSE o \in old : TRUE)
         IN [config EXCEPT !.hasHeaders = TRUE,
                           !.headers = SetHeader(headers, "Authorization", value)]

\* the variant with the commented-out delete of Content-Type enabled
requestInterceptorDeleting(config) ==
    LET token == accessToken IN
    IF ~Truthy(token) THEN config
    ELSE LET headers == IF config.hasHeaders THEN config.headers ELSE {}
             withAuth == SetHeader(headers, "Authorization",
                                   "Bearer " \o token.v)
             multipart == <<"Content-Type", "multipart/form-data">>
         IN [config EXCEPT
               !.hasHeaders = TRUE,
               !.headers = IF config.body = "formdata"
                              /\ multipart \in withAuth
                           THEN withAuth \ {multipart} ELSE withAuth]

requestInterceptor(config) ==
    LET token == accessToken IN
    IF ~Truthy(token) THEN config
    ELSE LET headers == IF config.hasHeaders THEN config.headers ELSE {}
             withAuth == SetHeader(headers, "Authorization",
                                   "Bearer " \o token.v)
         IN \* the FormData branch and its else branch only log: neither
            \* sets nor deletes Content-Type
            [config EXCEPT !.hasHeaders = TRUE, !.headers = withAuth]

----------------------------------------------------------------------------
(* Response interceptor: src/src/api/interceptor.ts *)

\* a response body is the text of a non-JSON document or the value a JSON
\* document decodes to
NonJson == [t |-> "text", v |-> "<html>"]

Returned(value) == [completion |-> "return", value |-> value]
Threw(message) == [completion |-> "throw", value |-> Str(message)]
NoResult == [completion |-> "none", value |-> JsUndef]

\* x.data and x.message: undefined on anything but an object that has the
\* field, a TypeError on null and undefined
CanRead(x) == x.t \notin {"null", "undefined"}
DataOf(x) == IF x.t = "object" THEN x.data ELSE JsUndef
MessageOf(x) == IF x.t = "object" THEN x.message ELSE JsUndef

\* await clonedResponse.json(), {} when it throws
parsedOrEmpty(body) == IF body = NonJson THEN Obj(JsUndef, JsUndef) ELSE body

handleSuccess(data, status) ==
    IF ~CanRead(data)
    THEN Threw("Cannot read properties of null (reading 'data')")
    ELSE Returned([success |-> TRUE, status |-> status,
                   data |-> OrElse(DataOf(data), data),
                   message |-> OrElse(MessageOf(data), Str("Success"))])

handleError(data, status) ==
    IF ~CanRead(data)
    THEN Threw("Cannot read properties of null (reading 'message')")
    ELSE Returned([success |-> FALSE, status |-> status, data |-> JsNull,
                   message |-> OrElse(MessageOf(data),
                                      Str("Error " \o ToString(status)))])

\* response.ok
Ok(status) == status \in 200..299

\* what responseInterceptor resolves to, or the error it rejects with
responseInterceptorValue(status, body) ==
    LET data == parsedOrEmpty(body) IN
    IF Ok(status) THEN handleSuccess(data, status)
    ELSE handleError(data, status)

responseInterceptorEffectOnAnyError(status) ==
    IF ~Ok(status)
    THEN logout /\ href' = "/"
    ELSE UNCHANGED <<accessToken, refreshToken, email, isInitialPassword,
                     savedEmail, href>>

\* what responseInterceptor does to the Token Store and the location: on a
\* 401 authStore.logout() and window.location.href = "/", both before
\* handleError runs
responseInterceptorEffect(status) ==
    IF ~Ok(status) /\ status = 401
    THEN logout /\ href' = "/"
    ELSE UNCHANGED <<accessToken, refreshToken, email, isInitialPassword,
                     savedEmail, href>>

----------------------------------------------------------------------------
(* One network call in flight.  via names the code path that issued it:    *)
(*   "http"  request() of src/src/api/http.ts (authApi)                    *)
(*   "util"  post() over fetchWithTimeout of src/src/utils/request.ts      *)
(*           (card, logo and colour services)                              *)
(*   "form"  postFormData() of src/src/utils/request.ts (uploads)          *)
(*   "raw"   getImage() of src/src/services/imageService.ts                *)

NoResponse == [status |-> 0, body |-> JsUndef]
NoConfig == [method |-> "GET", hasHeaders |-> FALSE, headers |-> {},
             body |-> "none"]

Idle == [pc |-> "idle", via |-> "none", options |-> NoConfig,
         tokenAt |-> JsNull, sent |-> NoConfig, timer |-> "none",
         outcome |-> "none", response |-> NoResponse, result |-> NoResult]

Pending(via, options, sent, timer) ==
    [pc |-> "pending", via |-> via, options |-> options,
     tokenAt |-> accessToken, sent |-> sent, timer |-> timer,
     outcome |-> "none", response |-> NoResponse, result |-> NoResult]

Done(outcome, response, result) ==
    [call EXCEPT !.pc = "done", !.outcome = outcome, !.response = response,
                 !.result = result,
                 !.timer = IF call.timer = "armed" THEN "cleared" ELSE @]

\* the options the callers of http.request pass
HttpOptions ==
    { [method |-> "GET", hasHeaders |-> FALSE, headers |-> {},
       body |-> "none"],
      [method |-> "POST", hasHeaders |-> FALSE, headers |-> {},
       body |-> "json"] }
    \cup { [method |-> "POST", hasHeaders |-> TRUE, headers |-> h,
            body |-> "json"] : h \in CallerHeaders }

\* the statuses and bodies a server answers with
Statuses == {200, 204, 400, 401, 403, 500}
ResponseBodies ==
    { NonJson, JsNull,
      Obj(Arr("c1"), Str("ok")),
      Obj(Num("0"), JsUndef),
      Obj(JsUndef, Str("Unauthorized")) }

\* const config = { method: "GET", headers: { ...DEFAULT_HEADERS }, ...options }
mergedConfig(options) ==
    [method |-> options.method, hasHeaders |-> TRUE,
     headers |-> IF options.hasHeaders THEN options.headers
                 ELSE DEFAULT_HEADERS,
     body |-> options.body]

\* the descriptor request() hands to fetch
fetchConfigIgnoringInterceptor(options) == mergedConfig(options)
fetchConfig(options) == requestInterceptor(mergedConfig(options))

\* the catch block of request()
networkError(message) ==
    Returned([success |-> FALSE, status |-> 0, code |-> "NETWORK_ERROR",
              data |-> JsNull,
              message |-> OrElse(Str(message), Str("Network error"))])

\* try { fetch; responseInterceptor } catch { status 0 }
requestResult(status, body) ==
    LET r == responseInterceptorValue(status, body) IN
    IF r.completion = "throw" THEN networkError(r.value.v) ELSE r

\* request(): no AbortController is created and options.timeout is not read
HttpRequest(options) ==
    /\ call.pc = "idle"
    /\ call' = Pending("http", options, fetchConfig(options), "none")
    /\ UNCHANGED <<accessToken, refreshToken, email, isInitialPassword,
                   savedEmail, href, probe>>

HttpRespond(status, body) ==
    /\ call.pc = "pending" /\ call.via = "http"
    /\ responseInterceptorEffect(status)
    /\ call' = Done("response", [status |-> status, body |-> body],
                    requestResult(status, body))
    /\ UNCHANGED probe

HttpTransportFail ==
    /\ call.pc = "pending" /\ call.via = "http"
    /\ call' = Done("transport", NoResponse, networkError("Failed to fetch"))
    /\ UNCHANGED <<accessToken, refreshToken, email, isInitialPassword,
                   savedEmail, href, probe>>

----------------------------------------------------------------------------
(* Request utility: src/src/utils/request.ts (the Pinia variant) *)

\* getAuthHeader() spread into the headers when it is truthy
authEntry ==
    IF Truthy(authHeader) THEN {<<"Authorization", authHeader.v>>} ELSE {}

\* the options the services pass to request.get / request.post
UtilOptions ==
    { [method |-> "GET", hasHeaders |-> FALSE, headers |-> {},
       body |-> "none"],
      [method |-> "POST", hasHeaders |-> FALSE, headers |-> {},
       body |-> "json"] }

\* fetchWithTimeout: { "Content-Type": ..., Authorization?, ...options.headers }
utilConfig(options) ==
    [method |-> options.method, hasHeaders |-> TRUE,
     headers |-> Spread(Spread({<<"Content-Type", "application/json">>},
                               authEntry),
                        IF options.hasHeaders THEN options.headers ELSE {}),
     body |-> options.body]

\* postFormData: { Authorization?, ...options?.headers }, no Content-Type
formConfig ==
    [method |-> "POST", hasHeaders |-> TRUE, headers |-> authEntry,
     body |-> "formdata"]

\* get/post/put/del after fetchWithTimeout returned the response:
\* if (!response.ok) throw; return (await response.json()).data
\* (the thrown text is `HTTP ${status}: ` followed by a fixed Korean phrase)
unwrapData(status, body) ==
    IF ~Ok(status)
    THEN Threw("HTTP " \o ToString(status) \o ": request failed")
    ELSE IF body = NonJson THEN Threw("Unexpected token < in JSON")
    ELSE IF ~CanRead(body)
    THEN Threw("Cannot read properties of null (reading 'data')")
    ELSE Returned(DataOf(body))

\* the 401 branch of fetchWithTimeout and of postFormData
utilEffect(status) ==
    IF status = 401
    THEN forceLogout /\ href' = "/login"
    ELSE UNCHANGED <<accessToken, refreshToken, email, isInitialPassword,
                     savedEmail, href>>

\* setTimeout(() => controller.abort(), timeout) arms the deadline
UtilRequest(options) ==
    /\ call.pc = "idle"
    /\ call' = Pending("util", options, utilConfig(options), "armed")
    /\ UNCHANGED <<accessToken, refreshToken, email, isInitialPassword,
                   savedEmail, href, probe>>

FormRequest ==
    /\ call.pc = "idle"
    /\ call' = Pending("form", formConfig, formConfig, "armed")
    /\ UNCHANGED <<accessToken, refreshToken, email, isInitialPassword,
                   savedEmail, href, probe>>

\* a response arrives: clearTimeout, the 401 branch, then the wrapper
UtilRespond(status, body) ==
    /\ call.pc = "pending" /\ call.via \in {"util", "form"}
    /\ utilEffect(status)
    /\ call' = Done("response", [status |-> status, body |-> body],
                    unwrapData(status, body))
    /\ UNCHANGED probe

\* fetch rejects: catch { clearTimeout; throw error }
UtilTransportFail ==
    /\ call.pc = "pending" /\ call.via \in {"util", "form"}
    /\ call' = Done("transport", NoResponse, Threw("Failed to fetch"))
    /\ UNCHANGED <<accessToken, refreshToken, email, isInitialPassword,
                   savedEmail, href, probe>>

\* the deadline expires: controller.abort() makes fetch reject
UtilTimeout ==
    /\ call.pc = "pending" /\ call.timer = "armed"
    /\ call' = Done("abort", NoResponse, Threw("The user aborted a request."))
    /\ UNCHANGED <<accessToken, refreshToken, email, isInitialPassword,
                   savedEmail, href, probe>>

----------------------------------------------------------------------------
(* getImage: src/src/services/imageService.ts, a bare fetch *)

Blob == [t |-> "blob", v |-> ""]

rawConfig ==
    [method |-> "POST", hasHeaders |-> TRUE,
     headers |-> {<<"Content-Type", "application/json">>}, body |-> "json"]

\* if (!response.ok) throw; return await response.blob()
\* (the thrown text is a fixed Korean phrase followed by response.statusText)
rawResult(status) ==
    IF ~Ok(status) THEN Threw("getImage failed: " \o ToString(status))
    ELSE Returned(Blob)

RawRequest ==
    /\ call.pc = "idle"
    /\ call' = Pending("raw", rawConfig, rawConfig, "none")
    /\ UNCHANGED <<accessToken, refreshToken, email, isInitialPassword,
                   savedEmail, href, probe>>

RawRespond(status, body) ==
    /\ call.pc = "pending" /\ call.via = "raw"
    /\ call' = Done("response", [status |-> status, body |-> body],
                    rawResult(status))
    /\ UNCHANGED <<accessToken, refreshToken, email, isInitialPassword,
                   savedEmail, href, probe>>

RawTransportFail ==
    /\ call.pc = "pending" /\ call.via = "raw"
    /\ call' = Done("transport", NoResponse, Threw("Failed to fetch"))
    /\ UNCHANGED <<accessToken, refreshToken, email, isInitialPassword,
                   savedEmail, href, probe>>

\* the awaiting caller takes the result (or the exception)
Return ==
    /\ call.pc = "done"
    /\ call' = Idle
    /\ UNCHANGED <<accessToken, refreshToken, email, isInitialPassword,
                   savedEmail, href, probe>>

----------------------------------------------------------------------------
(* The Token Store's operations as the application calls them.  A caller    *)
(* awaiting a result runs before any other handler, so these do not        *)
(* interleave with a call whose result is being delivered.                 *)

AuthData ==
    [accessToken : AccessTokens \cup {JsUndef},
     refreshToken : RefreshTokens \cup {JsUndef},
     email : Emails \cup {JsUndef},
     isInitialPassword : Flags \cup {JsUndef},
     savedEmail : Emails \cup {JsUndef}]

SetAuthData(authData) ==
    /\ call.pc # "done"
    /\ setAuthData(authData)
    /\ UNCHANGED <<href, call, probe>>

SaveEmail(e) ==
    /\ call.pc # "done"
    /\ saveEmail(e)
    /\ UNCHANGED <<href, call, probe>>

ClearSavedEmail ==
    /\ call.pc # "done"
    /\ clearSavedEmail
    /\ UNCHANGED <<href, call, probe>>

UpdateAccessToken(t) ==
    /\ call.pc # "done"
    /\ updateAccessToken(t)
    /\ UNCHANGED <<href, call, probe>>

Logout ==
    /\ call.pc # "done"
    /\ logout
    /\ UNCHANGED <<href, call, probe>>

ForceLogout ==
    /\ call.pc # "done"
    /\ forceLogout
    /\ UNCHANGED <<href, call, probe>>

----------------------------------------------------------------------------
NoProbe == [fn |-> "none"]

Init ==
    /\ accessToken = JsNull
    /\ refreshToken = JsNull
    /\ email = JsNull
    /\ isInitialPassword = Bool("false")
    /\ savedEmail = JsNull
    /\ href = "/app"
    /\ call = Idle
    /\ probe = NoProbe

Next ==
    \/ \E authData \in AuthData : SetAuthData(authData)
    \/ \E e \in Emails \ {JsNull} : SaveEmail(e)
    \/ ClearSavedEmail
    \/ \E t \in AccessTokens \ {JsNull} : UpdateAccessToken(t)
    \/ Logout
    \/ ForceLogout
    \/ \E options \in HttpOptions : HttpRequest(options)
    \/ \E status \in Statuses, body \in ResponseBodies :
           HttpRespond(status, body)
    \/ HttpTransportFail
    \/ \E options \in UtilOptions : UtilRequest(options)
    \/ FormRequest
    \/ \E status \in Statuses, body \in ResponseBodies :
           UtilRespond(status, body)
    \/ UtilTransportFail
    \/ UtilTimeout
    \/ RawRequest
    \/ \E status \in Statuses, body \in ResponseBodies :
           RawRespond(status, body)
    \/ RawTransportFail
    \/ Return

Spec == Init /\ [][Next]_vars

\* the scheduling the runtime guarantees: an armed timer fires unless it is
\* cleared first, and a settled promise resumes its awaiting caller; nothing
\* makes a server answer or a connection fail
FairSpec == Spec /\ WF_vars(UtilTimeout) /\ WF_vars(Return)

----------------------------------------------------------------------------
(* The Token Store's operations and the layout's logout button, one at a   *)
(* time, with the operation that ran last and the session it started from. *)

Session ==
    [accessToken |-> accessToken, refreshToken |-> refreshToken,
     email |-> email, isInitialPassword |-> isInitialPassword,
     savedEmail |-> savedEmail]

Ran(op) == [fn |-> "authStore", op |-> op, before |-> Session]

\* handleLogout of MainLayout.vue: localStorage.removeItem("auth-token") and
\* router.push("/login").  The Token Store is persisted under the key
\* "auth-store" and none of its actions is called, so its fields stay.
handleLogout ==
    /\ href' = "/login"
    /\ UNCHANGED <<accessToken, refreshToken, email, isInitialPassword,
                   savedEmail>>

InitAS ==
    /\ accessToken = JsNull
    /\ refreshToken = JsNull
    /\ email = JsNull
    /\ isInitialPassword = Bool("false")
    /\ savedEmail = JsNull
    /\ href = "/app"
    /\ call = Idle
    /\ probe = Ran("init")

RunSetAuthData(authData) ==
    /\ setAuthData(authData)
    /\ probe' = Ran("setAuthData")
    /\ UNCHANGED <<href, call>>

RunSaveEmail(e) ==
    /\ saveEmail(e)
    /\ probe' = Ran("saveEmail")
    /\ UNCHANGED <<href, call>>

RunClearSavedEmail ==
    /\ clearSavedEmail
    /\ probe' = Ran("clearSavedEmail")
    /\ UNCHANGED <<href, call>>

RunUpdateAccessToken(t) ==
    /\ updateAccessToken(t)
    /\ probe' = Ran("updateAccessToken")
    /\ UNCHANGED <<href, call>>

RunLogout ==
    /\ logout
    /\ probe' = Ran("logout")
    /\ UNCHANGED <<href, call>>

RunForceLogout ==
    /\ forceLogout
    /\ probe' = Ran("forceLogout")
    /\ UNCHANGED <<href, call>>

\* the Header emits "logout" and MainLayout runs handleLogout
RunHandleLogout ==
    /\ handleLogout
    /\ probe' = Ran("handleLogout")
    /\ UNCHANGED call

NextAS ==
    \/ \E authData \in AuthData : RunSetAuthData(authData)
    \/ \E e \in Emails \ {JsNull} : RunSaveEmail(e)
    \/ RunClearSavedEmail
    \/ \E t \in AccessTokens \ {JsNull} : RunUpdateAccessToken(t)
    \/ RunLogout
    \/ RunForceLogout
    \/ RunHandleLogout

SpecAS == InitAS /\ [][NextAS]_vars

----------------------------------------------------------------------------
(* The response interceptor applied once to each status and body *)

AllStatuses == 100..599

DataValues ==
    { JsUndef, JsNull, Num("0"), Num("5"), Bool("false"), Bool("true"),
      Str(""), Str("x"), Arr(""), Arr("c1") }
MessageValues == {JsUndef, JsNull, Str(""), Str("ok")}

AllBodies ==
    {NonJson, JsNull, Num("0"), Num("5"), Bool("false"), Str(""), Str("x"),
     Arr("c1")}
    \cup {Obj(d, m) : d \in DataValues, m \in MessageValues}

InitRI ==
    /\ accessToken \in {JsNull, Str("tokA")}
    /\ refreshToken = (IF accessToken = JsNull THEN JsNull ELSE Str("refA"))
    /\ email = (IF accessToken = JsNull THEN JsNull ELSE Str("a@x.io"))
    /\ isInitialPassword = Bool("false")
    /\ savedEmail \in Emails
    /\ href = "/app"
    /\ call = Idle
    /\ probe \in [fn : {"responseInterceptor"}, status : AllStatuses,
                  body : AllBodies, applied : {FALSE}, result : {NoResult}]

ApplyResponseInterceptor ==
    /\ probe.fn = "responseInterceptor" /\ ~probe.applied
    /\ responseInterceptorEffect(probe.status)
    /\ probe' = [probe EXCEPT
                   !.applied = TRUE,
                   !.result = responseInterceptorValue(probe.status,
                                                       probe.body)]
    /\ UNCHANGED call

NextRI == ApplyResponseInterceptor

SpecRI == InitRI /\ [][NextRI]_vars

----------------------------------------------------------------------------
(* The request interceptor applied repeatedly to its own result *)

MaxPasses == 2

HeaderSets ==
    CallerHeaders
    \cup { DEFAULT_HEADERS,
           {<<"Content-Type", "application/json">>,
            <<"X-Requested-With", "XMLHttpRequest">>},
           {<<"Content-Type", "application/json">>,
            <<"Authorization", "Bearer tokA">>} }

Descriptors ==
    { [method |-> m, hasHeaders |-> FALSE, headers |-> {}, body |-> b] :
        m \in {"GET", "POST"}, b \in Bodies }
    \cup { [method |-> m, hasHeaders |-> TRUE, headers |-> h, body |-> b] :
             m \in {"GET", "POST"}, h \in HeaderSets, b \in Bodies }

InitRQ ==
    /\ accessToken \in AccessTokens
    /\ refreshToken = JsNull
    /\ email = JsNull
    /\ isInitialPassword = Bool("false")
    /\ savedEmail = JsNull
    /\ href = "/app"
    /\ call = Idle
    /\ probe \in {[fn |-> "requestInterceptor", input |-> d, first |-> d,
                   output |-> d, passes |-> 0] : d \in Descriptors}

ApplyRequestInterceptor ==
    /\ probe.fn = "requestInterceptor" /\ probe.passes < MaxPasses
    /\ LET out == requestInterceptor(probe.output) IN
       probe' = [probe EXCEPT !.output = out,
                              !.first = IF probe.passes = 0 THEN out ELSE @,
                              !.passes = @ + 1]
    /\ UNCHANGED <<accessToken, refreshToken, email, isInitialPassword,
                   savedEmail, href, call>>

NextRQ == ApplyRequestInterceptor

SpecRQ == InitRQ /\ [][NextRQ]_vars

----------------------------------------------------------------------------
(* Card store: src/src/stores/contentStore.ts.  The file holds the store   *)
(* twice: the variant with USE_MOCK_DATA = true ("mock"), whose list is    *)
(* the module array MOCK_CARDS, and the variant that always calls          *)
(* contentService ("api").  A card is its id and its displayOrder; the     *)
(* store's refs are fields of probe.  A 401 on these calls is the 401 of   *)
(* UtilRespond above; here the server answers 200 or 500.                  *)

Card(id, displayOrder) == [id |-> id, displayOrder |-> displayOrder]

MOCK_CARDS ==
    <<Card("card-001", 1), Card("card-002", 2), Card("card-003", 3)>>

\* the number of cards created, and of store operations called, in one run
MaxCreated == 1
MaxCalls == 4

\* `card-${Date.now()}` in the mock variant, else the id the server assigns
NewCardId(n) == "card-10" \o ToString(n)

CardIds ==
    {"card-001", "card-002", "card-003"}
    \cup {NewCardId(n) : n \in 1..MaxCreated}

\* the orders a reorder is asked for: up to three distinct ids
CardIdLists ==
    {<<"card-001">>, <<NewCardId(1)>>,
     <<"card-002", "card-001">>, <<"card-003", NewCardId(1)>>,
     <<"card-003", "card-001", "card-002">>,
     <<"card-002", NewCardId(1), "card-001">>}

\* cardData of addCard and of updateCard: a field left out is undefined
NewCardData == {[name |-> "card"], [name |-> "card", displayOrder |-> 1]}
CardPatches == {[name |-> "renamed"], [displayOrder |-> 2]}

\* 1-based position of the first card with the id, 0 for findIndex's -1
findIndex(cs, cardId) ==
    IF \E i \in DOMAIN cs : cs[i].id = cardId
    THEN CHOOSE i \in DOMAIN cs :
             cs[i].id = cardId /\ \A j \in 1..(i - 1) : cs[j].id # cardId
    ELSE 0

\* cards.filter((c) => c.id !== cardId)
withoutCard(cs, cardId) == SelectSeq(cs, LAMBDA c : c.id # cardId)

\* Array.prototype.sort with (a.displayOrder || 0) - (b.displayOrder || 0):
\* stable, ascending
RECURSIVE sortByDisplayOrder(_)
sortByDisplayOrder(cs) ==
    IF cs = <<>> THEN <<>>
    ELSE LET m == CHOOSE i \in DOMAIN cs :
                      \A j \in DOMAIN cs :
                          \/ cs[j].displayOrder > cs[i].displayOrder
                          \/ cs[j].displayOrder = cs[i].displayOrder /\ j >= i
         IN <<cs[m]>> \o sortByDisplayOrder(SubSeq(cs, 1, m - 1)
                                            \o SubSeq(cs, m + 1, Len(cs)))

\* the getter: cards.sort(...).slice(0, 3)
displayCards(cs) ==
    LET sorted == sortByDisplayOrder(cs) IN
    SubSeq(sorted, 1, IF Len(sorted) < 3 THEN Len(sorted) ELSE 3)

setOrderOneBased(cs, cardId, index) ==
    LET i == findIndex(cs, cardId) IN
    IF i = 0 THEN cs ELSE [cs EXCEPT ![i].displayOrder = index + 1]

\* const card = cards.find((c) => c.id === id); if (card) card.displayOrder = index
setOrder(cs, cardId, index) ==
    LET i == findIndex(cs, cardId) IN
    IF i = 0 THEN cs ELSE [cs EXCEPT ![i].displayOrder = index]

\* cardIds.forEach((id, index) => ...), from the k-th id on
RECURSIVE reorder(_, _, _)
reorder(cs, cardIds, k) ==
    IF k > Len(cardIds) THEN cs
    ELSE reorder(setOrder(cs, cardIds[k], k - 1), cardIds, k + 1)

\* { ...card, ...cardData }
spreadCard(card, cardData) ==
    Card(card.id, IF "displayOrder" \in DOMAIN cardData
                  THEN cardData.displayOrder ELSE card.displayOrder)

\* cardData.displayOrder || fallback
orderOr(cardData, fallback) ==
    IF "displayOrder" \in DOMAIN cardData /\ cardData.displayOrder # 0
    THEN cardData.displayOrder ELSE fallback

insertWhenMissing(cs, cardId, updated) ==
    LET i == findIndex(cs, cardId) IN
    IF i = 0 THEN Append(cs, updated) ELSE [cs EXCEPT ![i] = updated]

\* const index = findIndex(...); if (index !== -1) cards[index] = updated
replaceCard(cs, cardId, updated) ==
    LET i == findIndex(cs, cardId) IN
    IF i = 0 THEN cs ELSE [cs EXCEPT ![i] = updated]

\* the JSON array a list endpoint answers with
List(items) == [t |-> "array", v |-> "", items |-> items]

\* the body of a list answer: the uniform envelope { success, message, data }
\* or the nesting that request.post<ApiResponse<Card[]>> declares
ListShapes == {"envelope", "nested"}
listBody(items, shape) ==
    IF shape = "nested" THEN Obj(Obj(List(items), Str("ok")), Str("ok"))
    ELSE Obj(List(items), Str("ok"))

\* the body of any other answer
answerBody(status, data) ==
    IF Ok(status) THEN Obj(data, Str("ok")) ELSE Obj(JsUndef, Str("error"))

\* contentService.getCardList:
\* const response = await request.post(...); return response.data || []
getCardList(status, body) ==
    LET response == unwrapData(status, body) IN
    IF response.completion = "throw" THEN response
    ELSE Returned(OrElse(DataOf(response.value), List(<<>>)))

\* what the server does with its own list of cards
serverAddCard(server, cardData, cardId) ==
    Append(server, Card(cardId, IF "displayOrder" \in DOMAIN cardData
                                THEN cardData.displayOrder
                                ELSE Len(server) + 1))

serverUpdateCard(server, cardId, cardData) ==
    replaceCard(server, cardId,
                spreadCard(server[findIndex(server, cardId)], cardData))

serverOrderCards(server, cardIds) ==
    [i \in DOMAIN server |->
        IF \E k \in DOMAIN cardIds : cardIds[k] = server[i].id
        THEN Card(server[i].id,
                  CHOOSE k \in DOMAIN cardIds : cardIds[k] = server[i].id)
        ELSE server[i]]

\* the server keeps displayOrder within 1..3 and unique, and answers a
\* request that would break this with an error
validCards(server) ==
    /\ \A i \in DOMAIN server : server[i].displayOrder \in 1..3
    /\ \A i, j \in DOMAIN server :
           i # j => server[i].displayOrder # server[j].displayOrder

hasCards(server, ids) == \A cardId \in ids : findIndex(server, cardId) # 0

\* error.value = err.message in the catch block, null from the entry else
errorOf(result) ==
    IF result.completion = "throw" THEN result.value ELSE JsNull

\* the operation that settled last
Called(op, cardId, cardIds, served, result) ==
    [op |-> op, cardId |-> cardId, cardIds |-> cardIds, served |-> served,
     result |-> result]

\* the ids whose cached object is the object held by MOCK_CARDS
sharedCards ==
    IF probe.aliased THEN {probe.cards[i].id : i \in DOMAIN probe.cards}
    ELSE probe.shared

\* MOCK_CARDS after the cached list became cs: the same array when aliased,
\* else the same objects where they are shared
mockAfter(cs) ==
    IF probe.aliased THEN cs
    ELSE [i \in DOMAIN probe.mock |->
            IF probe.mock[i].id \in probe.shared
               /\ findIndex(cs, probe.mock[i].id) # 0
            THEN cs[findIndex(cs, probe.mock[i].id)]
            ELSE probe.mock[i]]

ContentStore(variant, server) ==
    [fn |-> "contentStore", variant |-> variant, cards |-> <<>>,
     loading |-> FALSE, error |-> JsNull,
     mock |-> MOCK_CARDS, aliased |-> FALSE, shared |-> {},
     server |-> server, created |-> 0, calls |-> 0,
     last |-> [op |-> "none", cardId |-> "", cardIds |-> <<>>,
               served |-> FALSE, result |-> NoResult]]

InitCS ==
    /\ accessToken = Str("tokA")
    /\ refreshToken = Str("refA")
    /\ email = Str("a@x.io")
    /\ isInitialPassword = Bool("false")
    /\ savedEmail = JsNull
    /\ href = "/app"
    /\ call = Idle
    /\ probe \in {ContentStore("mock", <<>>), ContentStore("api", <<>>),
                  ContentStore("api", MOCK_CARDS)}

\* cards.value = MOCK_CARDS, or cards.value = await getCardList(office)
FetchCards(status, shape) ==
    /\ probe.fn = "contentStore" /\ probe.calls < MaxCalls
    /\ IF probe.variant = "mock"
       THEN /\ status = 200 /\ shape = "envelope"
            /\ probe' = [probe EXCEPT
                 !.cards = probe.mock, !.aliased = TRUE, !.shared = {},
                 !.loading = FALSE, !.error = JsNull,
                 !.calls = @ + 1,
                 !.last = Called("fetchCards", "", <<>>, FALSE,
                                 Returned(JsUndef))]
       ELSE LET r == getCardList(status, listBody(probe.server, shape)) IN
            probe' = [probe EXCEPT
                 !.cards = IF r.completion = "return" THEN r.value.items
                           ELSE @,
                 !.loading = FALSE, !.error = errorOf(r),
                 !.calls = @ + 1,
                 !.last = Called("fetchCards", "", <<>>, TRUE, r)]
    /\ UNCHANGED <<accessToken, refreshToken, email, isInitialPassword,
                   savedEmail, href, call>>

AddCard(cardData, status) ==
    /\ probe.fn = "contentStore" /\ probe.calls < MaxCalls /\ probe.created < MaxCreated
    /\ LET cardId == NewCardId(probe.created + 1) IN
       IF probe.variant = "mock"
       THEN /\ status = 200
            /\ LET newCard == Card(cardId,
                                   orderOr(cardData, Len(probe.cards) + 1))
                   cs == Append(probe.cards, newCard)
               IN probe' = [probe EXCEPT
                    !.cards = cs, !.mock = mockAfter(cs),
                    !.created = @ + 1,
                    !.loading = FALSE, !.error = JsNull,
                    !.calls = @ + 1,
                    !.last = Called("addCard", cardId, <<>>, FALSE,
                                    Returned(newCard))]
       ELSE LET server == IF Ok(status)
                          THEN serverAddCard(probe.server, cardData, cardId)
                          ELSE probe.server
                r == unwrapData(status,
                                answerBody(status,
                                           IF Ok(status)
                                           THEN server[Len(server)]
                                           ELSE JsUndef))
            IN /\ validCards(server)
               /\ probe' = [probe EXCEPT
                 !.server = server,
                 !.cards = IF r.completion = "return"
                           THEN Append(@, r.value) ELSE @,
                 !.created = IF Ok(status) THEN @ + 1 ELSE @,
                 !.loading = FALSE, !.error = errorOf(r),
                 !.calls = @ + 1,
                 !.last = Called("addCard", cardId, <<>>, TRUE, r)]
    /\ UNCHANGED <<accessToken, refreshToken, email, isInitialPassword,
                   savedEmail, href, call>>

\* mock: the cached card is replaced by { ...card, ...cardData } and a
\* missing card throws; api: the card the server returns replaces it
UpdateCard(cardId, cardData, status) ==
    /\ probe.fn = "contentStore" /\ probe.calls < MaxCalls
    /\ IF probe.variant = "mock"
       THEN /\ status = 200
            /\ LET index == findIndex(probe.cards, cardId)
                   updated == spreadCard(probe.cards[index], cardData)
                   cs == replaceCard(probe.cards, cardId, updated)
                   r == IF index # 0 THEN Returned(updated)
                        ELSE Threw("card not found")
               IN probe' = [probe EXCEPT
                    !.cards = IF index # 0 THEN cs ELSE @,
                    !.mock = IF index # 0 /\ probe.aliased THEN cs ELSE @,
                    !.shared = @ \ {cardId},
                    !.loading = FALSE, !.error = errorOf(r),
                    !.calls = @ + 1,
                    !.last = Called("updateCard", cardId, <<>>, FALSE, r)]
       ELSE /\ Ok(status) => hasCards(probe.server, {cardId})
            /\ LET server == IF Ok(status)
                             THEN serverUpdateCard(probe.server, cardId,
                                                   cardData)
                             ELSE probe.server
                   r == unwrapData(status,
                          answerBody(status,
                                     IF Ok(status)
                                     THEN server[findIndex(server, cardId)]
                                     ELSE JsUndef))
               IN /\ validCards(server)
                  /\ probe' = [probe EXCEPT
                    !.server = server,
                    !.cards = IF r.completion = "return"
                              THEN replaceCard(@, cardId, r.value) ELSE @,
                    !.loading = FALSE, !.error = errorOf(r),
                    !.calls = @ + 1,
                    !.last = Called("updateCard", cardId, <<>>, TRUE, r)]
    /\ UNCHANGED <<accessToken, refreshToken, email, isInitialPassword,
                   savedEmail, href, call>>

\* cards.value = cards.value.filter(...): a new array of the same objects
DeleteCard(cardId, status) ==
    /\ probe.fn = "contentStore" /\ probe.calls < MaxCalls
    /\ IF probe.variant = "mock"
       THEN /\ status = 200
            /\ probe' = [probe EXCEPT
                 !.cards = withoutCard(@, cardId),
                 !.aliased = FALSE, !.shared = sharedCards \ {cardId},
                 !.loading = FALSE, !.error = JsNull,
                 !.calls = @ + 1,
                 !.last = Called("deleteCard", cardId, <<>>, FALSE,
                                 Returned(JsUndef))]
       ELSE /\ Ok(status) => hasCards(probe.server, {cardId})
            /\ LET r == unwrapData(status, answerBody(status, JsNull)) IN
               probe' = [probe EXCEPT
                 !.server = IF Ok(status) THEN withoutCard(@, cardId) ELSE @,
                 !.cards = IF r.completion = "return"
                           THEN withoutCard(@, cardId) ELSE @,
                 !.loading = FALSE, !.error = errorOf(r),
                 !.calls = @ + 1,
                 !.last = Called("deleteCard", cardId, <<>>, TRUE, r)]
    /\ UNCHANGED <<accessToken, refreshToken, email, isInitialPassword,
                   savedEmail, href, call>>

\* the forEach writes displayOrder into the cached objects themselves
UpdateCardOrder(cardIds, status) ==
    /\ probe.fn = "contentStore" /\ probe.calls < MaxCalls
    /\ IF probe.variant = "mock"
       THEN /\ status = 200
            /\ LET cs == reorder(probe.cards, cardIds, 1) IN
               probe' = [probe EXCEPT
                 !.cards = cs, !.mock = mockAfter(cs),
                 !.loading = FALSE, !.error = JsNull,
                 !.calls = @ + 1,
                 !.last = Called("updateCardOrder", "", cardIds, FALSE,
                                 Returned(JsUndef))]
       ELSE /\ Ok(status) =>
                 /\ hasCards(probe.server,
                             {cardIds[k] : k \in DOMAIN cardIds})
                 /\ validCards(serverOrderCards(probe.server, cardIds))
            /\ LET r == unwrapData(status, answerBody(status, JsNull)) IN
               probe' = [probe EXCEPT
                 !.server = IF Ok(status)
                            THEN serverOrderCards(@, cardIds) ELSE @,
                 !.cards = IF r.completion = "return"
                           THEN reorder(@, cardIds, 1) ELSE @,
                 !.loading = FALSE, !.error = errorOf(r),
                 !.calls = @ + 1,
                 !.last = Called("updateCardOrder", "", cardIds, TRUE, r)]
    /\ UNCHANGED <<accessToken, refreshToken, email, isInitialPassword,
                   savedEmail, href, call>>

\* a view reads the getter displayCards, whose sort reorders cards in place
DisplayCards ==
    /\ probe.fn = "contentStore"
    /\ LET cs == sortByDisplayOrder(probe.cards) IN
       probe' = [probe EXCEPT !.cards = cs,
                              !.mock = IF probe.aliased THEN cs ELSE @]
    /\ UNCHANGED <<accessToken, refreshToken, email, isInitialPassword,
                   savedEmail, href, call>>

StoreStatuses == {200, 500}

NextCS ==
    \/ \E status \in StoreStatuses, shape \in ListShapes :
           FetchCards(status, shape)
    \/ \E cardData \in NewCardData, status \in StoreStatuses :
           AddCard(cardData, status)
    \/ \E cardId \in CardIds, cardData \in CardPatches,
          status \in StoreStatuses : UpdateCard(cardId, cardData, status)
    \/ \E cardId \in CardIds, status \in StoreStatuses :
           DeleteCard(cardId, status)
    \/ \E cardIds \in CardIdLists, status \in StoreStatuses :
           UpdateCardOrder(cardIds, status)
    \/ DisplayCards

SpecCS == InitCS /\ [][NextCS]_vars

----------------------------------------------------------------------------
(* Logo store: src/src/stores/logoStore.ts over logoService.  A logo is    *)
(* its id and its isSelected flag.  The server keeps at most three logos   *)
(* and at most one of them selected; what it answers to an upload is its   *)
(* own choice within that.                                                  *)

Logo(id, isSelected) == [id |-> id, isSelected |-> isSelected]

NewLogoId(n) == "logo-10" \o ToString(n)
LogoIds == {"logo-001", "logo-002"} \cup {NewLogoId(n) : n \in 1..MaxCreated}

selectedCount(ls) == Cardinality({i \in DOMAIN ls : ls[i].isSelected})

markSelectedOnly(ls, logoId) ==
    [i \in DOMAIN ls |->
        IF ls[i].id = logoId THEN Logo(ls[i].id, TRUE) ELSE ls[i]]

\* logos.forEach((logo) => { logo.isSelected = logo.id === logoId })
markSelected(ls, logoId) ==
    [i \in DOMAIN ls |-> Logo(ls[i].id, ls[i].id = logoId)]

\* logos.find((logo) => logo.isSelected): its id, or null
selectedIdOf(ls) ==
    IF selectedCount(ls) = 0 THEN JsNull
    ELSE Str(ls[CHOOSE i \in DOMAIN ls :
                    ls[i].isSelected
                    /\ \A j \in 1..(i - 1) : ~ls[j].isSelected].id)

\* an upload stored by the server, selected (and the others deselected) or not
serverAddLogo(server, logoId, selected) ==
    Append(IF selected THEN markSelected(server, "") ELSE server,
           Logo(logoId, selected))

LogoStore(server) ==
    [fn |-> "logoStore", logos |-> <<>>, selectedLogoId |-> JsNull,
     loading |-> FALSE, error |-> JsNull,
     server |-> server, created |-> 0, calls |-> 0,
     last |-> [op |-> "none", cardId |-> "", cardIds |-> <<>>,
               served |-> FALSE, result |-> NoResult]]

InitLS ==
    /\ accessToken = Str("tokA")
    /\ refreshToken = Str("refA")
    /\ email = Str("a@x.io")
    /\ isInitialPassword = Bool("false")
    /\ savedEmail = JsNull
    /\ href = "/app"
    /\ call = Idle
    /\ probe \in {LogoStore(<<>>),
                  LogoStore(<<Logo("logo-001", TRUE), Logo("logo-002", FALSE)>>)}

\* logos.value = await logoService.getLogoList(office), whose unwrapping is
\* getCardList's, then selectedLogoId from the first selected logo
FetchLogos(status, shape) ==
    /\ probe.fn = "logoStore" /\ probe.calls < MaxCalls
    /\ LET r == getCardList(status, listBody(probe.server, shape)) IN
       probe' = [probe EXCEPT
            !.logos = IF r.completion = "return" THEN r.value.items ELSE @,
            !.selectedLogoId = IF r.completion = "return"
                               THEN selectedIdOf(r.value.items) ELSE @,
            !.loading = FALSE, !.error = errorOf(r),
            !.calls = @ + 1,
            !.last = Called("fetchLogos", "", <<>>, TRUE, r)]
    /\ UNCHANGED <<accessToken, refreshToken, email, isInitialPassword,
                   savedEmail, href, call>>

\* logos.value.push(await logoService.addLogo(office, file))
UploadLogo(selected, status) ==
    /\ probe.fn = "logoStore" /\ probe.calls < MaxCalls
    /\ probe.created < MaxCreated
    /\ Ok(status) => Len(probe.server) < 3
    /\ LET logoId == NewLogoId(probe.created + 1)
           server == IF Ok(status)
                     THEN serverAddLogo(probe.server, logoId, selected)
                     ELSE probe.server
           r == unwrapData(status,
                           answerBody(status, IF Ok(status)
                                              THEN server[Len(server)]
                                              ELSE JsUndef))
       IN probe' = [probe EXCEPT
            !.server = server,
            !.logos = IF r.completion = "return"
                      THEN Append(@, r.value) ELSE @,
            !.created = IF Ok(status) THEN @ + 1 ELSE @,
            !.loading = FALSE, !.error = errorOf(r),
            !.calls = @ + 1,
            !.last = Called("uploadLogo", logoId, <<>>, TRUE, r)]
    /\ UNCHANGED <<accessToken, refreshToken, email, isInitialPassword,
                   savedEmail, href, call>>

SelectLogo(logoId, status) ==
    /\ probe.fn = "logoStore" /\ probe.calls < MaxCalls
    /\ Ok(status) => hasCards(probe.server, {logoId})
    /\ LET r == unwrapData(status, answerBody(status, JsNull)) IN
       probe' = [probe EXCEPT
            !.server = IF Ok(status) THEN markSelected(@, logoId) ELSE @,
            !.logos = IF r.completion = "return"
                      THEN markSelected(@, logoId) ELSE @,
            !.selectedLogoId = IF r.completion = "return"
                               THEN Str(logoId) ELSE @,
            !.loading = FALSE, !.error = errorOf(r),
            !.calls = @ + 1,
            !.last = Called("selectLogo", logoId, <<>>, TRUE, r)]
    /\ UNCHANGED <<accessToken, refreshToken, email, isInitialPassword,
                   savedEmail, href, call>>

DeleteLogo(logoId, status) ==
    /\ probe.fn = "logoStore" /\ probe.calls < MaxCalls
    /\ Ok(status) => hasCards(probe.server, {logoId})
    /\ LET r == unwrapData(status, answerBody(status, JsNull)) IN
       probe' = [probe EXCEPT
            !.server = IF Ok(status) THEN withoutCard(@, logoId) ELSE @,
            !.logos = IF r.completion = "return"
                      THEN withoutCard(@, logoId) ELSE @,
            !.selectedLogoId = IF r.completion = "return" /\ @ = Str(logoId)
                               THEN JsNull ELSE @,
            !.loading = FALSE, !.error = errorOf(r),
            !.calls = @ + 1,
            !.last = Called("deleteLogo", logoId, <<>>, TRUE, r)]
    /\ UNCHANGED <<accessToken, refreshToken, email, isInitialPassword,
                   savedEmail, href, call>>

NextLS ==
    \/ \E status \in StoreStatuses, shape \in ListShapes :
           FetchLogos(status, shape)
    \/ \E selected \in BOOLEAN, status \in StoreStatuses :
           UploadLogo(selected, status)
    \/ \E logoId \in LogoIds, status \in StoreStatuses :
           SelectLogo(logoId, status)
    \/ \E logoId \in LogoIds, status \in StoreStatuses :
           DeleteLogo(logoId, status)

SpecLS == InitLS /\ [][NextLS]_vars

----------------------------------------------------------------------------
(* Overlapping calls of the content store: fetchCards and fetchAgents of   *)
(* src/src/stores/contentStore.ts (501-538), each split at its await.  A   *)
(* call is issued, stays pending while its request is in flight, and       *)
(* settles when the answer arrives; answers arrive in any order.           *)

MaxIssued == 3

InFlight(id, op) == [id |-> id, op |-> op]

ContentCalls ==
    [fn |-> "contentCalls", cards |-> <<>>, agents |-> <<>>,
     loading |-> FALSE, error |-> JsNull,
     pending |-> {}, issued |-> 0, settled |-> <<>>]

InitCC ==
    /\ accessToken = Str("tokA")
    /\ refreshToken = Str("refA")
    /\ email = Str("a@x.io")
    /\ isInitialPassword = Bool("false")
    /\ savedEmail = Str("a@x.io")
    /\ href = "/app"
    /\ call = Idle
    /\ probe = ContentCalls

\* loading.value = true; error.value = null; then the request is sent
Issue(op) ==
    /\ probe.fn = "contentCalls" /\ probe.issued < MaxIssued
    /\ probe' = [probe EXCEPT
            !.loading = TRUE, !.error = JsNull,
            !.issued = @ + 1,
            !.pending = @ \cup {InFlight(probe.issued + 1, op)}]
    /\ UNCHANGED <<accessToken, refreshToken, email, isInitialPassword,
                   savedEmail, href, call>>

\* a mutant that lets the call issued last win
afterAnswerInIssueOrder(c, r) ==
    [probe EXCEPT
        !.cards = IF c.op = "fetchCards" /\ r.completion = "return"
                     /\ \A k \in DOMAIN probe.settled :
                            probe.settled[k].id < c.id
                  THEN r.value.items ELSE @,
        !.agents = IF c.op = "fetchAgents" /\ r.completion = "return"
                   THEN r.value.items ELSE @,
        !.error = IF r.completion = "throw" THEN r.value ELSE @,
        !.loading = FALSE,
        !.pending = @ \ {c},
        !.settled = Append(@, [id |-> c.id, op |-> c.op, result |-> r])]

\* a mutant that drops an answer arriving after the session was cleared
afterAnswerWhileLoggedIn(c, r) ==
    [probe EXCEPT
        !.cards = IF c.op = "fetchCards" /\ r.completion = "return"
                     /\ accessToken # JsNull
                  THEN r.value.items ELSE @,
        !.agents = IF c.op = "fetchAgents" /\ r.completion = "return"
                   THEN r.value.items ELSE @,
        !.error = IF r.completion = "throw" THEN r.value ELSE @,
        !.loading = FALSE,
        !.pending = @ \ {c},
        !.settled = Append(@, [id |-> c.id, op |-> c.op, result |-> r])]

\* the rest of the call once its service promise settled with r:
\* try { cards.value = await ... } catch { error.value = message; throw }
\* finally { loading.value = false }
afterAnswer(c, r) ==
    [probe EXCEPT
        !.cards = IF c.op = "fetchCards" /\ r.completion = "return"
                  THEN r.value.items ELSE @,
        !.agents = IF c.op = "fetchAgents" /\ r.completion = "return"
                   THEN r.value.items ELSE @,
        !.error = IF r.completion = "throw" THEN r.value ELSE @,
        !.loading = FALSE,
        !.pending = @ \ {c},
        !.settled = Append(@, [id |-> c.id, op |-> c.op, result |-> r])]

\* the answer to the request of pending call c arrives: fetchWithTimeout
\* logs out on a 401, then the service unwraps the list
Settle(c, status, items, shape) ==
    /\ probe.fn = "contentCalls" /\ c \in probe.pending
    /\ probe' = afterAnswer(c, getCardList(status, listBody(items, shape)))
    /\ utilEffect(status)
    /\ UNCHANGED call

NextCC ==
    \/ \E op \in {"fetchCards", "fetchAgents"} : Issue(op)
    \/ \E c \in probe.pending, status \in {200, 401, 500},
          items \in {<<Card("card-001", 1)>>, MOCK_CARDS},
          shape \in ListShapes :
           Settle(c, status, items, shape)

SpecCC == InitCC /\ [][NextCC]_vars

----------------------------------------------------------------------------
(* Colour store (src/src/stores/colorStore.ts) and image store             *)
(* (src/src/stores/imageStore.ts).  A colour is the sequence of its        *)
(* characters, so that the hex test is computed on the text.               *)

ColorKeys ==
    {"mainColorHexCode", "mainHoverColorHexCode", "subColorHexCode",
     "subHoverColorHexCode", "startGradientColor", "endGradientColor"}

\* /^#([A-Fa-f0-9]{6}|[A-Fa-f0-9]{3})$/.test(color)
isValidHexColor(color) ==
    /\ Len(color) \in {4, 7}
    /\ color[1] = "#"
    /\ \A i \in 2..Len(color) :
           color[i] \in {"0", "1", "2", "3", "4", "5", "6", "7", "8", "9",
                         "A", "B", "C", "D", "E", "F",
                         "a", "b", "c", "d", "e", "f"}

\* the palette both colorPalette and defaultPalette start with
InitialPalette ==
    [k \in ColorKeys |->
        CASE k \in {"mainColorHexCode", "startGradientColor"}
               -> <<"#", "2", "5", "6", "3", "E", "B">>
          [] k = "mainHoverColorHexCode"
               -> <<"#", "1", "E", "4", "0", "A", "F">>
          [] k \in {"subColorHexCode", "endGradientColor"}
               -> <<"#", "1", "0", "B", "9", "8", "1">>
          [] OTHER -> <<"#", "0", "5", "9", "6", "6", "9">>]

\* the colour values a caller or the server supplies
ColorValues ==
    {<<"#", "F", "F", "F">>, <<"#", "a", "0", "0", "0", "0", "0">>,
     <<"F", "F", "F">>, <<"#", "G", "G", "G">>, <<"#", "F", "F", "F", "F">>,
     <<>>}

InitRS ==
    /\ accessToken = Str("tokA")
    /\ refreshToken = Str("refA")
    /\ email = Str("a@x.io")
    /\ isInitialPassword = Bool("false")
    /\ savedEmail = JsNull
    /\ href = "/app"
    /\ call = Idle
    /\ probe \in
         {[fn |-> "colorStore",
           colorPalette |-> InitialPalette, defaultPalette |-> InitialPalette,
           previousPalette |-> JsNull, isEditing |-> FALSE,
           began |-> InitialPalette,
           loading |-> FALSE, error |-> JsNull,
           isDeploying |-> FALSE, deployError |-> JsNull,
           calls |-> 0,
           last |-> [op |-> "none", result |-> NoResult]],
          [fn |-> "imageStore",
           uploadedImages |-> [t \in {} |-> JsUndef],
           uploadProgress |-> 0, uploadingFileName |-> JsNull,
           loading |-> FALSE, error |-> JsNull,
           calls |-> 0,
           last |-> [op |-> "none", result |-> NoResult]]}

\* the server's config carries colour value for key (no colour when the
\* value is empty); every truthy colour is copied without the hex test
FetchColorPalette(key, value, status) ==
    /\ probe.fn = "colorStore" /\ probe.calls < MaxCalls
    /\ LET r == unwrapData(status, answerBody(status, JsNull))
           palette == IF r.completion = "return" /\ Len(value) > 0
                      THEN [probe.colorPalette EXCEPT ![key] = value]
                      ELSE probe.colorPalette
       IN probe' = [probe EXCEPT
            !.colorPalette = palette,
            !.defaultPalette = IF r.completion = "return" THEN palette ELSE @,
            !.loading = FALSE, !.error = errorOf(r),
            !.calls = @ + 1,
            !.last = [op |-> "fetchColorPalette", result |-> r]]
    /\ UNCHANGED <<accessToken, refreshToken, email, isInitialPassword,
                   savedEmail, href, call>>

\* returns early with error set when a colour is invalid; else works under
\* isDeploying and deployError
SaveColorPalette(status) ==
    /\ probe.fn = "colorStore" /\ probe.calls < MaxCalls
    /\ LET r == unwrapData(status, answerBody(status, JsNull)) IN
       IF \E k \in ColorKeys : ~isValidHexColor(probe.colorPalette[k])
       THEN /\ status = 200
            /\ probe' = [probe EXCEPT
                 !.error = Str("invalid colour in palette"),
                 !.calls = @ + 1,
                 !.last = [op |-> "saveColorPalette",
                           result |-> Returned(JsUndef)]]
       ELSE probe' = [probe EXCEPT
                 !.defaultPalette = IF r.completion = "return"
                                    THEN probe.colorPalette ELSE @,
                 !.isEditing = IF r.completion = "return" THEN FALSE ELSE @,
                 !.isDeploying = FALSE,
                 !.deployError = errorOf(r),
                 !.calls = @ + 1,
                 !.last = [op |-> "saveColorPalette", result |-> r]]
    /\ UNCHANGED <<accessToken, refreshToken, email, isInitialPassword,
                   savedEmail, href, call>>

UpdateColor(key, value) ==
    /\ probe.fn = "colorStore" /\ probe.calls < MaxCalls
    /\ probe' = IF isValidHexColor(value)
                THEN [probe EXCEPT
                        !.colorPalette[key] = value,
                        !.isEditing = TRUE,
                        !.began = IF probe.isEditing THEN @
                                  ELSE probe.colorPalette,
                        !.calls = @ + 1,
                        !.last = [op |-> "updateColor",
                                  result |-> Returned(JsUndef)]]
                ELSE [probe EXCEPT
                        !.error = Str("invalid colour format"),
                        !.calls = @ + 1,
                        !.last = [op |-> "updateColor",
                                  result |-> Returned(JsUndef)]]
    /\ UNCHANGED <<accessToken, refreshToken, email, isInitialPassword,
                   savedEmail, href, call>>

ResetPalette ==
    /\ probe.fn = "colorStore" /\ probe.calls < MaxCalls
    /\ probe' = [probe EXCEPT
            !.colorPalette = probe.defaultPalette,
            !.isEditing = FALSE,
            !.calls = @ + 1,
            !.last = [op |-> "resetPalette", result |-> Returned(JsUndef)]]
    /\ UNCHANGED <<accessToken, refreshToken, email, isInitialPassword,
                   savedEmail, href, call>>

CancelEdit ==
    /\ probe.fn = "colorStore" /\ probe.calls < MaxCalls
    /\ probe' = [probe EXCEPT
            !.colorPalette = IF probe.previousPalette # JsNull
                             THEN probe.previousPalette ELSE @,
            !.isEditing = FALSE,
            !.previousPalette = JsNull,
            !.calls = @ + 1,
            !.last = [op |-> "cancelEdit", result |-> Returned(JsUndef)]]
    /\ UNCHANGED <<accessToken, refreshToken, email, isInitialPassword,
                   savedEmail, href, call>>

StartEdit ==
    /\ probe.fn = "colorStore" /\ probe.calls < MaxCalls
    /\ probe' = [probe EXCEPT
            !.previousPalette = probe.colorPalette,
            !.isEditing = TRUE,
            !.began = IF probe.isEditing THEN @ ELSE probe.colorPalette,
            !.calls = @ + 1,
            !.last = [op |-> "startEdit", result |-> Returned(JsUndef)]]
    /\ UNCHANGED <<accessToken, refreshToken, email, isInitialPassword,
                   savedEmail, href, call>>

\* imageService.uploadImage returns response.message of what postFormData
\* unwrapped; the store caches it under imageType
UploadImage(imageType, status, data) ==
    /\ probe.fn = "imageStore" /\ probe.calls < MaxCalls
    /\ LET response == unwrapData(status, answerBody(status, data))
           r == IF response.completion = "throw" THEN response
                ELSE IF ~CanRead(response.value)
                THEN Threw("Cannot read properties of null (reading 'message')")
                ELSE Returned(MessageOf(response.value))
       IN probe' = [probe EXCEPT
            !.uploadedImages = IF r.completion = "return"
                               THEN (imageType :> r.value) @@ @ ELSE @,
            !.uploadProgress = IF r.completion = "return" THEN 100 ELSE 0,
            !.uploadingFileName = JsNull,
            !.loading = FALSE, !.error = errorOf(r),
            !.calls = @ + 1,
            !.last = [op |-> "uploadImage", result |-> r]]
    /\ UNCHANGED <<accessToken, refreshToken, email, isInitialPassword,
                   savedEmail, href, call>>

\* a mutant that removes the cached url before the server answered
DeleteImageOptimistic(imageType, status) ==
    /\ probe.fn = "imageStore" /\ probe.calls < MaxCalls
    /\ LET r == unwrapData(status, answerBody(status, JsNull)) IN
       probe' = [probe EXCEPT
            !.uploadedImages = [t \in (DOMAIN @) \ {imageType} |-> @[t]],
            !.loading = FALSE, !.error = errorOf(r),
            !.calls = @ + 1,
            !.last = [op |-> "deleteImage", result |-> r]]
    /\ UNCHANGED <<accessToken, refreshToken, email, isInitialPassword,
                   savedEmail, href, call>>

DeleteImage(imageType, status) ==
    /\ probe.fn = "imageStore" /\ probe.calls < MaxCalls
    /\ LET r == unwrapData(status, answerBody(status, JsNull)) IN
       probe' = [probe EXCEPT
            !.uploadedImages =
                IF r.completion = "return"
                THEN [t \in (DOMAIN @) \ {imageType} |-> @[t]] ELSE @,
            !.loading = FALSE, !.error = errorOf(r),
            !.calls = @ + 1,
            !.last = [op |-> "deleteImage", result |-> r]]
    /\ UNCHANGED <<accessToken, refreshToken, email, isInitialPassword,
                   savedEmail, href, call>>

NextRS ==
    \/ \E key \in {"mainColorHexCode"}, value \in ColorValues,
          status \in StoreStatuses :
           FetchColorPalette(key, value, status)
    \/ \E status \in StoreStatuses : SaveColorPalette(status)
    \/ \E key \in {"mainColorHexCode", "subColorHexCode"},
          value \in ColorValues :
           UpdateColor(key, value)
    \/ ResetPalette
    \/ CancelEdit
    \/ StartEdit
    \/ \E imageType \in {"thumbnail", "banner"}, status \in StoreStatuses,
          data \in {JsNull, Obj(JsUndef, Str("/img/1.png")),
                    Obj(JsUndef, Str("/img/2.png"))} :
           UploadImage(imageType, status, data)
    \/ \E imageType \in {"thumbnail", "banner"}, status \in StoreStatuses :
           DeleteImage(imageType, status)

SpecRS == InitRS /\ [][NextRS]_vars

----------------------------------------------------------------------------
(* The resource stores side by side: every store starts in its own initial *)
(* state and runs its own operations.                                      *)

SpecStores == (InitCS \/ InitLS \/ InitRS) /\ [][NextCS \/ NextLS \/ NextRS]_vars

----------------------------------------------------------------------------
(* Auto-login service: src/src/services/autoLoginService.ts.               *)
(*                                                                         *)
(* A token is null or a string given by its dot-separated parts; a part is *)
(* its characters and the text they decode to when they are base64, the    *)
(* text being no JSON document (NonJson), the JSON null or a number, or a  *)
(* JSON object with or without an exp member (exp in seconds).  Times are  *)
(* in milliseconds.                                                        *)

Part(text, decoded) == [text |-> text, decoded |-> decoded]
Payload(hasExp, exp) == [t |-> "object", hasExp |-> hasExp, exp |-> exp]
Token(parts) == [t |-> "string", parts |-> parts]

\* a mutant that compares exp in seconds with the time in milliseconds
isTokenValidInSeconds(token, now) ==
    IF token = JsNull \/ token.parts = <<Part(<<>>, NonJson)>> THEN FALSE
    ELSE IF Len(token.parts) # 3 THEN FALSE
    ELSE LET text == token.parts[2].text
             payload == token.parts[2].decoded
             atobThrows ==
                 \/ Len(text) % 4 = 1
                 \/ \E i \in DOMAIN text : text[i] \in {"-", "_", "!"}
         IN IF atobThrows \/ payload = NonJson \/ payload = JsNull THEN FALSE
            ELSE IF payload.t = "object" /\ payload.hasExp /\ payload.exp # 0
            THEN ~(now + 5 * 60 * 1000 > payload.exp)
            ELSE TRUE

\* isTokenValid(token) called at time now: false for no token, for a token
\* that does not split into three parts, and when atob, JSON.parse or the
\* read of payload.exp throws; with a truthy exp the comparison of
\* now + 5 minutes with exp * 1000; true otherwise
isTokenValid(token, now) ==
    IF token = JsNull \/ token.parts = <<Part(<<>>, NonJson)>> THEN FALSE
    ELSE IF Len(token.parts) # 3 THEN FALSE
    ELSE LET text == token.parts[2].text
             payload == token.parts[2].decoded
             atobThrows ==
                 \/ Len(text) % 4 = 1
                 \/ \E i \in DOMAIN text : text[i] \in {"-", "_", "!"}
         IN IF atobThrows \/ payload = NonJson \/ payload = JsNull THEN FALSE
            ELSE IF payload.t = "object" /\ payload.hasExp /\ payload.exp # 0
            THEN ~(now + 5 * 60 * 1000 > payload.exp * 1000)
            ELSE TRUE

InitAL ==
    /\ email \in Emails
    /\ isInitialPassword = Bool("false")
    /\ savedEmail \in Emails
    /\ href = "/app"
    /\ call = Idle
    /\ \/ /\ accessToken \in AccessTokens
          /\ refreshToken \in RefreshTokens
          /\ probe \in [fn : {"autoLogin"}, dev : BOOLEAN, done : {FALSE},
                        before : {JsNull}, testLogin : {"none"},
                        result : {NoResult}]
       \/ /\ accessToken = JsNull
          /\ refreshToken = JsNull
          /\ LET good == <<"e", "y", "J", "9">>
                 far == Payload(TRUE, 9999)
                 middles ==
                     {Part(good, Payload(TRUE, exp)) :
                          exp \in {-5, 0, 1, 1299, 1300, 1301, 1600}}
                     \cup {Part(good, Payload(FALSE, 0)),
                           Part(good, NonJson), Part(good, JsNull),
                           Part(good, Num("5")),
                           Part(<<"e", "y", "_", "9">>, far),
                           Part(<<"e", "y", "J", "9", "x">>, far),
                           Part(<<"!", "y", "J", "9">>, far)}
                 tokens ==
                     {JsNull, Token(<<Part(<<>>, NonJson)>>),
                      Token(<<Part(good, far)>>),
                      Token(<<Part(good, NonJson), Part(good, far)>>),
                      Token(<<Part(good, NonJson), Part(good, far),
                              Part(good, NonJson), Part(good, NonJson)>>)}
                     \cup {Token(<<Part(good, NonJson), m,
                                   Part(good, NonJson)>>) : m \in middles}
             IN probe \in [fn : {"isTokenValid"}, token : tokens,
                           now : {999000, 1000000, 1000001},
                           done : {FALSE}, result : {FALSE}]

CheckToken ==
    /\ probe.fn = "isTokenValid" /\ ~probe.done
    /\ probe' = [probe EXCEPT
            !.done = TRUE,
            !.result = isTokenValid(probe.token, probe.now)]
    /\ UNCHANGED <<accessToken, refreshToken, email, isInitialPassword,
                   savedEmail, href, call>>

\* autoLogin(authStore, testAuthStore).  status is the status of the first
\* test-login request that is not answered with 200, or 200; login is what
\* authApi.login resolves with when both are.  An answer other than 200
\* passes through responseInterceptor and makes the authApi call throw.
AutoLogin(status, login) ==
    /\ probe.fn = "autoLogin" /\ ~probe.done
    /\ IF Truthy(accessToken) /\ Truthy(refreshToken)
       THEN /\ status = 200 /\ login = JsNull
            /\ probe' = [probe EXCEPT !.done = TRUE, !.before = Session,
                           !.result = Returned(Bool("true"))]
            /\ UNCHANGED <<accessToken, refreshToken, email,
                           isInitialPassword, savedEmail, href>>
       ELSE IF ~probe.dev
       THEN /\ status = 200 /\ login = JsNull
            /\ probe' = [probe EXCEPT !.done = TRUE, !.before = Session,
                           !.result = Returned(Bool("false"))]
            /\ UNCHANGED <<accessToken, refreshToken, email,
                           isInitialPassword, savedEmail, href>>
       ELSE IF status = 200 /\ login # JsNull /\ Truthy(login.success)
               /\ login.data # JsUndef
       THEN /\ setAuthData([email |-> Str("komsco@demo.co.kr"),
                            accessToken |-> login.data.accessToken,
                            refreshToken |-> login.data.refreshToken,
                            isInitialPassword |->
                                login.data.isInitialPassword,
                            savedEmail |-> JsUndef])
            /\ probe' = [probe EXCEPT !.done = TRUE, !.before = Session,
                           !.testLogin = "succeeded",
                           !.result = Returned(Bool("true"))]
            /\ UNCHANGED href
       ELSE /\ status # 200 => login = JsNull
            /\ responseInterceptorEffect(status)
            /\ probe' = [probe EXCEPT !.done = TRUE, !.before = Session,
                           !.testLogin = "failed",
                           !.result = Returned(Bool("false"))]
    /\ UNCHANGED call

SpecAL ==
    InitAL /\ [][\/ CheckToken
                 \/ \E status \in {200, 401, 500},
                       login \in
                         {JsNull,
                          [t |-> "object", success |-> JsUndef,
                           data |-> JsUndef],
                          [t |-> "object", success |-> Bool("true"),
                           data |-> JsUndef],
                          [t |-> "object", success |-> Bool("true"),
                           data |-> [accessToken |-> Str("tokB"),
                                     refreshToken |-> Str("refB"),
                                     isInitialPassword |-> Bool("true")]]} :
                        AutoLogin(status, login)]_vars

----------------------------------------------------------------------------
(* Properties *)

HttpDone == call.pc = "done" /\ call.via = "http"
Got401 == call.outcome = "response" /\ call.response.status = 401
StoreVias == {"util", "form", "raw"}
\* a ?? b
Coalesce(a, b) == IF a.t \in {"null", "undefined"} THEN b ELSE a
NoToken(token) == token = JsNull \/ token = Str("")
AuthorizationEntries(config) ==
    {h \in config.headers : h[1] = "Authorization"}

\* C1 as stated: in every reachable state of the Token Store isLoggedIn is
\* true if and only if accessToken is not null, the empty string included
\* among the tokens a caller may store.
C1_LoggedInIffNotNull == IsLoggedIn <=> accessToken # JsNull

\* C1 amended: in every reachable state isLoggedIn is true if and only if
\* accessToken is neither null nor the empty string.
C1_LoggedInIffNonEmptyToken ==
    IsLoggedIn <=> (accessToken # JsNull /\ accessToken # Str(""))

C1_EmptyTokenStored ==
    accessToken = Str("") /\ refreshToken = Str("refA") /\ ~IsLoggedIn

\* C2: when the response interceptor processes a 401 while a session is
\* logged in, it returns a Failure of status 401 (it does not throw) and
\* isLoggedIn is false afterwards.
C2_Unauthorized401FailsAndLogsOut ==
    [][(/\ IsLoggedIn
        /\ probe.fn = "responseInterceptor" /\ probe.status = 401
        /\ ~probe.applied /\ probe'.applied) =>
           /\ ~IsLoggedIn'
           /\ probe'.result.completion = "return"
           /\ probe'.result.value.success = FALSE
           /\ probe'.result.value.status = 401]_vars

\* C3: after the response interceptor has processed a 401, accessToken,
\* refreshToken and email are null, isInitialPassword is false and the
\* remembered email savedEmail is null as well.
C3_Unauthorized401ForcesLogout ==
    (probe.fn = "responseInterceptor" /\ probe.applied
     /\ probe.status = 401) =>
        /\ accessToken = JsNull
        /\ refreshToken = JsNull
        /\ email = JsNull
        /\ isInitialPassword = Bool("false")
        /\ savedEmail = JsNull

\* C4: every network call of a resource store carries the Authorization
\* header the request interceptor would have set for the token stored when
\* it was issued, and on a 401 it ends as request() ends: redirect to "/"
\* and the Failure that the response interceptor returns.
C4_StoreCallsUseInterceptors ==
    (call.pc \in {"pending", "done"} /\ call.via \in StoreVias) =>
        /\ {h[2] : h \in AuthorizationEntries(call.sent)}
             = (IF NoToken(call.tokenAt) THEN {}
                ELSE {"Bearer " \o call.tokenAt.v})
        /\ (call.pc = "done" /\ Got401) =>
               /\ href = "/"
               /\ call.result = requestResult(401, call.response.body)

\* C5: the descriptor request() hands to fetch is the request interceptor's:
\* it has the single Authorization entry "Bearer <accessToken>" when a token
\* was stored at the time of the call, and otherwise its headers are the
\* caller's (or the defaults), with no Authorization entry added.
C5_FetchUsesInterceptedConfig ==
    (call.pc \in {"pending", "done"} /\ call.via = "http") =>
        IF NoToken(call.tokenAt)
        THEN call.sent.headers = (IF call.options.hasHeaders
                                  THEN call.options.headers
                                  ELSE DEFAULT_HEADERS)
        ELSE AuthorizationEntries(call.sent)
               = {<<"Authorization", "Bearer " \o call.tokenAt.v>>}

C5_CallerAuthorizationReplaced ==
    /\ call.pc = "pending" /\ call.via = "http"
    /\ call.tokenAt = Str("tokA")
    /\ <<"Authorization", "Basic dXNlcg==">> \in call.options.headers
    /\ <<"Authorization", "Bearer tokA">> \in call.sent.headers

\* C6: request() never throws; a transport failure gives a Failure of status
\* 0 with data null; and whenever an HTTP response was received the returned
\* status is that response's status (so status 0 means no response).
C6_StatusZeroOnlyWithoutResponse ==
    HttpDone =>
        /\ call.result.completion = "return"
        /\ call.outcome = "transport" =>
               /\ call.result.value.success = FALSE
               /\ call.result.value.status = 0
               /\ call.result.value.data = JsNull
        /\ call.outcome = "response" =>
               call.result.value.status = call.response.status

\* C7: every request issued through request() or fetchWithTimeout is armed
\* with a deadline, so once pending it is eventually settled even when the
\* server never answers.
C7_PendingRequestSettles ==
    (call.pc = "pending" /\ call.via \in {"http", "util", "form"})
        ~> (call.pc = "done")

\* C8: for every status in 100..599 and every body, JSON or not, the response
\* interceptor returns a Success or a Failure, and a Success only for 2xx.
C8_ClassificationIsTotal ==
    (probe.fn = "responseInterceptor" /\ probe.applied) =>
        /\ probe.result.completion = "return"
        /\ probe.result.value.success \in BOOLEAN
        /\ probe.result.value.success => probe.status \in 200..299

\* C9: for a 2xx response whose payload P is an object, the Success carries
\* P.data unless that is null or undefined (so 0, false and "" are carried),
\* else P itself; and P.message unless that is null or undefined, else
\* "Success".
C9_SuccessCarriesDefinedData ==
    (/\ probe.fn = "responseInterceptor" /\ probe.applied
     /\ probe.status \in 200..299 /\ probe.body.t = "object") =>
        /\ probe.result.completion = "return"
        /\ probe.result.value.data = Coalesce(probe.body.data, probe.body)
        /\ probe.result.value.message
             = Coalesce(probe.body.message, Str("Success"))

InterceptedWithoutAuthorization ==
    /\ probe.fn = "requestInterceptor" /\ probe.passes >= 1
    /\ AuthorizationEntries(probe.input) = {}

\* C10 as stated: for a descriptor without an Authorization header and any
\* non-null stored token, the interceptor yields exactly one Authorization
\* entry "Bearer <token>", and a second run returns the same descriptor.
C10_IdempotentForNonNullToken ==
    (InterceptedWithoutAuthorization /\ accessToken # JsNull) =>
        /\ AuthorizationEntries(probe.first)
             = {<<"Authorization", "Bearer " \o accessToken.v>>}
        /\ probe.passes >= 2 => probe.output = probe.first

\* C10 amended: the same for any stored token that is neither null nor the
\* empty string.
C10_IdempotentForNonEmptyToken ==
    (/\ InterceptedWithoutAuthorization
     /\ accessToken # JsNull /\ accessToken # Str("")) =>
        /\ AuthorizationEntries(probe.first)
             = {<<"Authorization", "Bearer " \o accessToken.v>>}
        /\ probe.passes >= 2 => probe.output = probe.first

C10_InterceptedTwice ==
    /\ InterceptedWithoutAuthorization
    /\ accessToken = Str("tokA")
    /\ ~probe.input.hasHeaders
    /\ probe.passes = 2
    /\ probe.output.headers = {<<"Authorization", "Bearer tokA">>}

ContentTypeEntries(config) ==
    {h \in config.headers : h[1] = "Content-Type"}

\* C11: for a descriptor whose body is multipart/form-data the request
\* interceptor neither sets, overwrites nor removes Content-Type: the
\* Content-Type entry of the returned descriptor, present or absent, is the
\* input's, whether or not a token is stored.
C11_MultipartContentTypeUntouched ==
    (/\ probe.fn = "requestInterceptor" /\ probe.passes >= 1
     /\ probe.input.body = "formdata") =>
        ContentTypeEntries(probe.first) = ContentTypeEntries(probe.input)

C11_MultipartIntercepted ==
    /\ probe.fn = "requestInterceptor" /\ probe.passes = 1
    /\ probe.input.body = "formdata"
    /\ accessToken = Str("tokA")
    /\ probe.input.headers = {<<"Content-Type", "multipart/form-data">>}
    /\ probe.first.headers = {<<"Content-Type", "multipart/form-data">>,
                              <<"Authorization", "Bearer tokA">>}

\* C12: a call that ends with a 2xx response, with an error response other
\* than 401 or with a transport failure or an abort leaves accessToken,
\* refreshToken, email, isInitialPassword and savedEmail as they were when
\* the outcome arrived.
C12_OnlyUnauthorizedWritesSession ==
    [][(/\ call.pc = "pending" /\ call'.pc = "done"
        /\ ~(call'.outcome = "response" /\ call'.response.status = 401)) =>
           UNCHANGED <<accessToken, refreshToken, email, isInitialPassword,
                       savedEmail>>]_vars

C12_SessionSurvivesServerError ==
    /\ call.pc = "done" /\ call.via = "http"
    /\ call.outcome = "response" /\ call.response.status = 500
    /\ call.tokenAt = Str("tokA") /\ accessToken = Str("tokA")
    /\ refreshToken = Str("refA") /\ savedEmail = Str("a@x.io")

\* C13: logout() sets accessToken, refreshToken and email to null and
\* isInitialPassword to false, and leaves savedEmail exactly as it was
\* before the call.
C13_LogoutKeepsSavedEmail ==
    (probe.fn = "authStore" /\ probe.op = "logout") =>
        /\ accessToken = JsNull
        /\ refreshToken = JsNull
        /\ email = JsNull
        /\ isInitialPassword = Bool("false")
        /\ savedEmail = probe.before.savedEmail

C13_LoggedOutWithSavedEmail ==
    /\ probe.fn = "authStore" /\ probe.op = "logout"
    /\ probe.before.accessToken = Str("tokA")
    /\ probe.before.isInitialPassword = Bool("true")
    /\ probe.before.savedEmail = Str("a@x.io")
    /\ accessToken = JsNull /\ savedEmail = Str("a@x.io")

\* C14: after the user has triggered logout from the layout header,
\* accessToken is null and isLoggedIn is false, so the next request carries
\* no Authorization header, through request() or through fetchWithTimeout.
C14_HeaderLogoutClearsSession ==
    (probe.fn = "authStore" /\ probe.op = "handleLogout") =>
        /\ accessToken = JsNull
        /\ ~IsLoggedIn
        /\ \A options \in HttpOptions :
               AuthorizationEntries(fetchConfig(
                   [options EXCEPT !.hasHeaders = FALSE, !.headers = {}])) = {}
        /\ authEntry = {}

FetchedCards ==
    \E status \in StoreStatuses, shape \in ListShapes :
        FetchCards(status, shape) /\ probe'.last.result.completion = "return"

\* C17: after a successful updateCardOrder(ids, office) every cached card
\* whose id occurs in ids has displayOrder equal to the zero-based index of
\* its id in ids, every other cached card keeps its displayOrder, and no
\* card is added, removed or moved.
C17_ReorderAssignsZeroBasedIndex ==
    [][\A cardIds \in CardIdLists :
          (UpdateCardOrder(cardIds, 200)
           /\ probe'.last.result.completion = "return") =>
             /\ Len(probe'.cards) = Len(probe.cards)
             /\ \A i \in DOMAIN probe.cards :
                  /\ probe'.cards[i].id = probe.cards[i].id
                  /\ probe'.cards[i].displayOrder =
                       IF \E k \in DOMAIN cardIds :
                              cardIds[k] = probe.cards[i].id
                       THEN (CHOOSE k \in DOMAIN cardIds :
                                 cardIds[k] = probe.cards[i].id) - 1
                       ELSE probe.cards[i].displayOrder]_vars

C17_ReorderedThreeOfFour ==
    /\ probe.fn = "contentStore"
    /\ probe.last.op = "updateCardOrder"
    /\ probe.last.cardIds = <<"card-003", "card-001", "card-002">>
    /\ probe.last.result.completion = "return"
    /\ probe.cards = <<Card("card-001", 1), Card("card-002", 2),
                       Card("card-003", 0), Card(NewCardId(1), 4)>>

\* C18: in every reachable state of the card store the displayOrder of every
\* card of displayCards lies in 1..3 and no two cards of displayCards share
\* a displayOrder.
C18_VisibleOrdersDistinctInOneToThree ==
    probe.fn = "contentStore" =>
        LET visible == displayCards(probe.cards) IN
        /\ \A i \in DOMAIN visible : visible[i].displayOrder \in 1..3
        /\ \A i, j \in DOMAIN visible :
               i # j => visible[i].displayOrder # visible[j].displayOrder

\* C19: when a successful addCard is followed immediately by a successful
\* fetchCards, the cached list after the fetch contains a card with the id
\* of the card addCard returned.
C19_CreatedCardIsFetched ==
    [][(/\ probe.fn = "contentStore"
        /\ probe.last.op = "addCard"
        /\ probe.last.result.completion = "return"
        /\ FetchedCards) =>
           \E i \in DOMAIN probe'.cards :
               probe'.cards[i].id = probe.last.result.value.id]_vars

\* C20: an updateCard(id, office, patch) whose server call succeeds returns
\* without recording an error; it replaces the cached card of that id by the
\* returned card when there is one, and leaves the cache as it was, nothing
\* inserted, when there is none.
C20_UpdateReplacesOrDrops ==
    [][\A cardId \in CardIds, cardData \in CardPatches :
          (UpdateCard(cardId, cardData, 200) /\ probe'.last.served) =>
             LET index == findIndex(probe.cards, cardId)
                 updated == probe'.last.result.value
             IN /\ probe'.last.result.completion = "return"
                /\ probe'.error = JsNull
                /\ updated = probe'.server[findIndex(probe'.server, cardId)]
                /\ probe'.cards = IF index = 0 THEN probe.cards
                                  ELSE [probe.cards EXCEPT ![index] = updated]
      ]_vars

C20_UpdatedCardNotCached ==
    /\ probe.fn = "contentStore" /\ probe.variant = "api"
    /\ probe.last.op = "updateCard" /\ probe.last.cardId = "card-001"
    /\ probe.last.served /\ probe.last.result.completion = "return"
    /\ probe.last.result.value = Card("card-001", 1)
    /\ probe.error = JsNull
    /\ probe.cards = <<Card(NewCardId(1), 3)>>

SelectedLogo(logoId) ==
    SelectLogo(logoId, 200) /\ probe'.last.result.completion = "return"

\* C15 as stated: after a successful selectLogo(id, office), whatever the id
\* and whatever the cache held, exactly one cached logo has isSelected = true
\* and its id is the argument.
C15_ExactlyOneSelectedForEveryId ==
    [][\A logoId \in LogoIds :
          SelectedLogo(logoId) =>
             /\ selectedCount(probe'.logos) = 1
             /\ \A i \in DOMAIN probe'.logos :
                    probe'.logos[i].isSelected =>
                        probe'.logos[i].id = logoId]_vars

\* C15 amended: after a successful selectLogo(id, office) a cached logo has
\* isSelected = true exactly when its id is the argument, so exactly one is
\* selected when the cache holds one logo of that id and none when it holds
\* no such logo; the cached logos are otherwise as before.
C15_SelectedExactlyTheCachedId ==
    [][\A logoId \in LogoIds :
          SelectedLogo(logoId) =>
             /\ Len(probe'.logos) = Len(probe.logos)
             /\ \A i \in DOMAIN probe.logos :
                    /\ probe'.logos[i].id = probe.logos[i].id
                    /\ probe'.logos[i].isSelected <=>
                           probe.logos[i].id = logoId
             /\ selectedCount(probe'.logos)
                  = Cardinality({i \in DOMAIN probe.logos :
                                     probe.logos[i].id = logoId})]_vars

C15_SelectionMoved ==
    /\ probe.fn = "logoStore"
    /\ probe.last.op = "selectLogo" /\ probe.last.cardId = "logo-002"
    /\ probe.last.result.completion = "return"
    /\ probe.logos = <<Logo("logo-001", FALSE), Logo("logo-002", TRUE)>>
    /\ probe.selectedLogoId = Str("logo-002")

\* C16: in every reachable state of the logo store, after any sequence of
\* fetchLogos, uploadLogo, selectLogo and deleteLogo against a server that
\* keeps at most one logo selected, at most one cached logo has
\* isSelected = true.
C16_AtMostOneCachedLogoSelected ==
    probe.fn = "logoStore" =>
        /\ selectedCount(probe.server) <= 1
        /\ selectedCount(probe.logos) <= 1

SettledCall == probe.settled[Len(probe.settled)]

\* C22: when fetchCards calls of one store overlap, settling one leaves the
\* others pending (no cancellation), and each successful answer overwrites
\* the cached list, so that once both have resolved the cache is the list of
\* the call that resolved last, in whatever order the calls were issued.
C22_LastResolvedFetchWins ==
    [][(probe.fn = "contentCalls"
          /\ Len(probe'.settled) = Len(probe.settled) + 1) =>
          LET answered == probe'.settled[Len(probe'.settled)] IN
          /\ InFlight(answered.id, answered.op) \in probe.pending
          /\ probe'.pending
                = probe.pending \ {InFlight(answered.id, answered.op)}
          /\ (answered.op = "fetchCards"
                /\ answered.result.completion = "return") =>
                 probe'.cards = answered.result.value.items]_vars

C22_FirstIssuedResolvedLast ==
    /\ probe.fn = "contentCalls"
    /\ probe.pending = {}
    /\ Len(probe.settled) = 2
    /\ probe.settled[1].id = 2 /\ probe.settled[2].id = 1
    /\ \A k \in 1..2 : /\ probe.settled[k].op = "fetchCards"
                       /\ probe.settled[k].result.completion = "return"
    /\ probe.settled[1].result.value.items = MOCK_CARDS
    /\ probe.settled[2].result.value.items = <<Card("card-001", 1)>>
    /\ probe.cards = <<Card("card-001", 1)>>

\* C23: a fetchCards call issued while logged in whose answer arrives after
\* forceLogout has run still replaces the cached cards with the answer.
C23_StaleFetchOverwritesAfterLogout ==
    [][\A c \in probe.pending, shape \in ListShapes,
          items \in {<<Card("card-001", 1)>>, MOCK_CARDS} :
          (accessToken = JsNull /\ c.op = "fetchCards"
             /\ Settle(c, 200, items, shape)) =>
              /\ accessToken' = JsNull
              /\ probe'.cards = IF shape = "nested" THEN items ELSE <<>>]_vars

C23_LoggedOutWithFetchedCards ==
    /\ probe.fn = "contentCalls"
    /\ accessToken = JsNull /\ refreshToken = JsNull /\ href = "/login"
    /\ Len(probe.settled) = 2
    /\ probe.settled[1].op = "fetchAgents"
    /\ probe.settled[1].result.completion = "throw"
    /\ SettledCall.op = "fetchCards" /\ SettledCall.id = 1
    /\ SettledCall.result.completion = "return"
    /\ probe.cards = MOCK_CARDS

\* C26: in every reachable state of the content store loading is true while
\* at least one of its operations is in flight (fetchCards and fetchAgents
\* running in parallel keep it true until both have finished).
C26_LoadingWhileInFlight ==
    (probe.fn = "contentCalls" /\ probe.pending # {}) => probe.loading

\* C27: in every reachable state of the logo store selectedLogoId is null
\* and no cached logo is flagged isSelected, or it is the id of a cached logo
\* and that logo is the one flagged isSelected.
C27_SelectedIdMatchesSelectedFlag ==
    probe.fn = "logoStore" =>
        \/ /\ probe.selectedLogoId = JsNull
           /\ selectedCount(probe.logos) = 0
        \/ /\ probe.selectedLogoId # JsNull
           /\ \E i \in DOMAIN probe.logos :
                  probe.logos[i].id = probe.selectedLogoId.v
           /\ \A i \in DOMAIN probe.logos :
                  probe.logos[i].isSelected
                     <=> probe.logos[i].id = probe.selectedLogoId.v

\* C21 as stated, at the end of an operation of the colour or image store:
\* loading is false, and an operation that failed has recorded its message
\* in error and re-thrown it.
C21_FailureRecordedInError ==
    probe.fn \in {"colorStore", "imageStore"} =>
        /\ ~probe.loading
        /\ probe.last.result.completion = "throw" =>
               probe.error = probe.last.result.value

\* a mutating store operation has just failed
FailedMutation ==
    /\ probe'.calls = probe.calls + 1
    /\ probe'.last.result.completion = "throw"
    /\ probe'.last.op \in {"addCard", "updateCard", "deleteCard",
                           "updateCardOrder", "uploadLogo", "selectLogo",
                           "deleteLogo", "uploadImage", "deleteImage"}

CacheUnchanged ==
    CASE probe.fn = "contentStore" ->
            probe'.cards = probe.cards /\ probe'.mock = probe.mock
      [] probe.fn = "logoStore" ->
            /\ probe'.logos = probe.logos
            /\ probe'.selectedLogoId = probe.selectedLogoId
      [] probe.fn = "imageStore" ->
            /\ probe'.uploadedImages = probe.uploadedImages
            /\ probe'.uploadingFileName = probe.uploadingFileName
      [] OTHER -> TRUE

\* C28 as stated: when a mutating store operation fails, the cached
\* collection and selection are as before the call and only loading and
\* error change.
C28_OnlyLoadingAndErrorChange ==
    [][FailedMutation =>
          /\ CacheUnchanged
          /\ probe.fn = "imageStore" =>
                 probe'.uploadProgress = probe.uploadProgress]_vars

\* C28 amended: when a mutating store operation fails, the cached collection
\* and selection (cards, logos, selectedLogoId, uploadedImages) are as before
\* the call and error holds the message; besides loading and error only the
\* image store's uploadProgress changes, which a failed uploadImage leaves
\* at 0.
C28_FailureKeepsCache ==
    [][FailedMutation =>
          /\ CacheUnchanged
          /\ ~probe'.loading
          /\ probe'.error = probe'.last.result.value
          /\ probe.fn = "imageStore" =>
                 probe'.uploadProgress
                    = IF probe'.last.op = "uploadImage" THEN 0
                      ELSE probe.uploadProgress]_vars

C28_FailedUploadAfterUpload ==
    /\ probe.fn = "imageStore"
    /\ probe.last.op = "uploadImage"
    /\ probe.last.result.completion = "throw"
    /\ probe.uploadedImages = ("thumbnail" :> Str("/img/1.png"))
    /\ probe.uploadProgress = 0
    /\ probe.error = probe.last.result.value

\* C30: in the colour store, whenever isEditing is true the palette as it
\* was when editing began is held in previousPalette, so that cancelEdit
\* restores colorPalette to it and sets isEditing to false; an updateColor
\* with an invalid hex value leaves colorPalette unchanged.
C30_CancelEditRestoresPalette ==
    [][/\ (probe.fn = "colorStore" /\ probe.isEditing /\ CancelEdit) =>
             /\ probe.previousPalette = probe.began
             /\ probe'.colorPalette = probe.began
             /\ ~probe'.isEditing
       /\ \A key \in ColorKeys, value \in ColorValues :
             (UpdateColor(key, value) /\ ~isValidHexColor(value)) =>
                 probe'.colorPalette = probe.colorPalette]_vars

TokenChecked == probe.fn = "isTokenValid" /\ probe.done

\* the payload of a checked token of three parts whose middle part decodes
TokenPayload == probe.token.parts[2].decoded

ThreeDecodedParts ==
    /\ probe.token # JsNull
    /\ Len(probe.token.parts) = 3
    /\ probe.token.parts[2].text = <<"e", "y", "J", "9">>
    /\ TokenPayload \notin {NonJson, JsNull}

\* C24: for a three-part token whose payload has an exp member, isTokenValid
\* is true when exp lies 5 minutes and 1 second after the current time and
\* false when it lies 4 minutes 59 seconds after it; for a token that has not
\* exactly three parts, or whose middle part is not base64 or does not
\* decode to JSON, it is false.
C24_ExpiryBoundary ==
    TokenChecked =>
        /\ (ThreeDecodedParts /\ TokenPayload.t = "object"
              /\ TokenPayload.hasExp) =>
               /\ TokenPayload.exp * 1000 = probe.now + 301000 => probe.result
               /\ TokenPayload.exp * 1000 = probe.now + 299000 => ~probe.result
        /\ (probe.token = JsNull
              \/ Len(probe.token.parts) # 3
              \/ probe.token.parts[2].text # <<"e", "y", "J", "9">>
              \/ TokenPayload = NonJson) => ~probe.result

C24_FiveMinutesOneSecondLeft ==
    /\ TokenChecked /\ ThreeDecodedParts
    /\ probe.now = 1000000
    /\ TokenPayload = Payload(TRUE, 1301)
    /\ probe.result

\* C25: isTokenValid is true for a payload without exp; for a payload with
\* an exp member, whatever its numeric value (0 and past values included),
\* it is false exactly when now + 5 minutes > exp * 1000.
C25_EveryExpIsCompared ==
    (TokenChecked /\ ThreeDecodedParts /\ TokenPayload.t = "object") =>
        IF TokenPayload.hasExp
        THEN probe.result
               <=> ~(probe.now + 300000 > TokenPayload.exp * 1000)
        ELSE probe.result

\* C29: autoLogin never throws; its result equals isLoggedIn of the auth
\* store when it returns; when the test login fails the session fields are
\* unchanged.
C29_ResultEqualsIsLoggedIn ==
    (probe.fn = "autoLogin" /\ probe.done) =>
        /\ probe.result.completion = "return"
        /\ probe.result.value = Bool("true") <=> IsLoggedIn
        /\ probe.testLogin = "failed" => Session = probe.before

====
